---- MODULE Spec2Model ----
(***************************************************************************)
(* LLM-Node: per-model lifecycle controller (core/model_controller.py),    *)
(* request gateway (core/api_router.py), admin endpoints                   *)
(* (core/api_server.py), process manager (core/process_manager.py) and     *)
(* device-status cache (core/plugin_system.py).                            *)
(*                                                                         *)
(* Threads: the asyncio event loop runs every route_request coroutine and  *)
(* every admin endpoint (the admin endpoints call start_model/stop_model   *)
(* synchronously, so they occupy the loop); asyncio.to_thread gives each   *)
(* gateway-initiated start_model its own worker thread; the idle reaper    *)
(* and the device monitor are daemon threads.                              *)
(*                                                                         *)
(* Python's None is modelled by 0 for pid and last_access (both are only   *)
(* tested for truthiness in the code and real values are never 0) and by   *)
(* "none" for current_config and failure_reason.                           *)
(***************************************************************************)
EXTENDS Integers, FiniteSets, Sequences, TLC

\* ------------------------------------------------------------------ bounds

\* number of gateway requests (each request id is used once)
NReq == 2
\* number of admin start/stop calls
MaxAdmin == 1
\* number of times the hardware goes offline / comes back
MaxHwFlips == 1
\* number of clock ticks after AliveTime
ExtraTicks == 1
\* longest variant list handed to the selector on its own
MaxVariants == 3
\* latest last_access drawn for a serving model
MaxStamp == 3
\* longest request path, in segments, handed to validate_request on its own
MaxSegments == 3

\* ------------------------------------------------------- program constants

\* alive_time of the program config, in clock ticks (> 0: reaper enabled)
AliveTime == 1

\* Disable_GPU_monitoring of the program config
GpuMonitoringDisabled == FALSE

\* the clock starts at 1 (time.time() is never 0)
MaxTime == 1 + AliveTime + ExtraTicks

\* primary names in config order (models_state is built in this order)
ModelOrder == <<"a", "b", "c", "d">>

Models == {ModelOrder[i] : i \in 1..Len(ModelOrder)}

\* the models that clients and operators address in the concurrent runs
Addressed == {"a", "b"}

Devices == {"gpu0", "cpu"}

\* total memory of each device, in units
TotalMemory == [d \in Devices |-> 4]

\* the mode of each model entry
ModelMode ==
  [m \in Models |-> IF m = "b" THEN "Embedding" ELSE IF m = "d" THEN "Rerank" ELSE "Chat"]

\* the modes an interface plugin is loaded for
InterfacePlugins == {"Chat", "Embedding"}

\* the variant blocks of each model entry, in definition order
Variants ==
  [m \in Models |->
     IF m = "a"
     THEN << [key |-> "gpu", required_devices |-> {"gpu0"}, memory_mb |-> [gpu0 |-> 3]] >>
     ELSE IF m = "b"
     THEN << [key |-> "gpu", required_devices |-> {"gpu0", "cpu"}, memory_mb |-> [gpu0 |-> 2, cpu |-> 1]] >>
     ELSE << [key |-> "gpu", required_devices |-> {"gpu0"}, memory_mb |-> [gpu0 |-> 2]] >>]

\* the order in which a variant's memory_mb dict is iterated
DeviceOrder == <<"gpu0", "cpu">>

Reqs == 1..NReq

\* thread 0 is the event loop executing an admin endpoint; thread r is the
\* to_thread worker of request r
Admin == 0

Threads == {Admin} \cup Reqs

NoThread == -1

STARTUP_STATES == {"starting", "init_script", "health_check"}

Statuses == {"stopped", "starting", "init_script", "health_check", "routing", "failed"}

VARIABLES
  models_state,        \* ModelController.models_state: per model status, pid, current_config, last_access, failure_reason
  startup_locks,       \* ModelController.startup_locks: holder of each threading.Lock
  state_lock,          \* holder of state['lock'] while it is held across a blocking wait
  processes,           \* ProcessManager.processes entry "model_<name>"
  device_status_cache, \* PluginManager.device_status_cache
  hw_online,           \* what the device probe would report now
  new_cache,           \* _update_device_status_once of the monitor thread: its local map, probed and not yet stored
  pending_requests,    \* APIRouter.pending_requests
  starting_models,     \* APIRouter.starting_models
  req,                 \* each route_request coroutine: position, target model, answer
  thr,                 \* each start_model call: position, model, chosen variant, result
  clock,               \* time.time()
  reaper,              \* idle_check_loop: the model it decided to stop, or "none"
  budget,              \* admin calls and hardware flips used
  hist                 \* observations: spawn epoch per model, completions per request, last request touch, a selector call and a validation on their own

vars == <<models_state, startup_locks, state_lock, processes, device_status_cache,
          hw_online, new_cache, pending_requests, starting_models, req, thr, clock, reaper,
          budget, hist>>

IdleThr == [pc |-> "idle", m |-> "none", key |-> "none", res |-> FALSE, victim |-> "none"]

IdleReq == [pc |-> "idle", m |-> "none", code |-> "none"]

\* ------------------------------------------------------------ pure helpers

\* the variant block of model m with key k
VariantOf(m, k) ==
  LET i == CHOOSE j \in 1..Len(Variants[m]) : Variants[m][j].key = k
  IN Variants[m][i]

\* the for loop of get_adaptive_model_config over the variant blocks V from
\* block i on: config_source of the first block whose required_devices are a
\* subset of the online set, "none" (None) when the loop ends
RECURSIVE ScanVariants(_, _, _)
ScanVariants(V, online, i) ==
  IF i > Len(V) THEN "none"
  ELSE IF V[i].required_devices \subseteq online THEN V[i].key
  ELSE ScanVariants(V, online, i + 1)

\* mutant of SelectVariant: the loop does not stop at the first match
SelectVariant_LastMatch(V, online) ==
  LET ok == {i \in 1..Len(V) : V[i].required_devices \subseteq online}
  IN IF ok = {} THEN "none"
     ELSE V[CHOOSE i \in ok : \A j \in ok : i >= j].key

SelectVariant(V, online) == ScanVariants(V, online, 1)

\* ConfigManager.get_adaptive_model_config for the configured model m
get_adaptive_model_config(m, online) == SelectVariant(Variants[m], online)

\* mutant of SelectionOnline: Disable_GPU_monitoring is not looked at
SelectionOnline_IgnoresSwitch(V, cached, disabled) == cached

\* _start_model_intelligent: the online set handed to the selector, from the
\* cached online set, or from the variant blocks when monitoring is disabled
SelectionOnline(V, cached, disabled) ==
  IF disabled
  THEN UNION {V[i].required_devices : i \in 1..Len(V)}
  ELSE cached

\* _start_model_intelligent: the online set handed to the selector
OnlineForSelection(m) ==
  SelectionOnline(Variants[m], {d \in Devices : device_status_cache[d].online},
                  GpuMonitoringDisabled)

\* memory the running children hold on device d
UsedMemory(procs, d) ==
  LET holders == {m \in Models : procs[m].status = "running"
                                  /\ d \in DOMAIN VariantOf(m, procs[m].key).memory_mb}
      RECURSIVE Sum(_)
      Sum(S) == IF S = {} THEN 0
                ELSE LET x == CHOOSE y \in S : TRUE
                     IN VariantOf(x, procs[x].key).memory_mb[d] + Sum(S \ {x})
  IN Sum(holders)

\* device plugin probe: is_online / get_devices_info
Probe(procs, online, d) ==
  IF online[d]
  THEN [online |-> TRUE,
        available |-> IF UsedMemory(procs, d) >= TotalMemory[d] THEN 0
                      ELSE TotalMemory[d] - UsedMemory(procs, d)]
  ELSE [online |-> FALSE, available |-> 0]

\* PluginManager._update_device_status_once: a fresh map from every probe
update_device_status_once(procs, online) ==
  [d \in Devices |-> Probe(procs, online, d)]

\* _check_and_free_resources, one pass over required_memory.items():
\* [ok, deficit] as left when the for loop ends or breaks
RECURSIVE GatePass(_, _, _, _, _)
GatePass(mem, snap, i, ok, deficit) ==
  IF i > Len(DeviceOrder) THEN [ok |-> ok, deficit |-> deficit]
  ELSE LET d == DeviceOrder[i] IN
       IF d \notin DOMAIN mem THEN GatePass(mem, snap, i + 1, ok, deficit)
       ELSE IF ~snap[d].online THEN [ok |-> FALSE, deficit |-> deficit]
       ELSE IF snap[d].available < mem[d]
            THEN GatePass(mem, snap, i + 1, FALSE, deficit \cup {d})
            ELSE GatePass(mem, snap, i + 1, ok, deficit)

ResourceCheck(m, k, snap) ==
  IF GpuMonitoringDisabled THEN [ok |-> TRUE, deficit |-> {}]
  ELSE GatePass(VariantOf(m, k).memory_mb, snap, 1, TRUE, {})

IndexOf(m) == CHOOSE i \in 1..Len(ModelOrder) : ModelOrder[i] = m

\* _stop_idle_models_for_resources: the candidate list before sorting
EvictionCandidates(deficit) ==
  {n \in Models : /\ models_state[n].status = "routing"
                  /\ models_state[n].current_config # "none"
                  /\ VariantOf(n, models_state[n].current_config).required_devices
                       \cap deficit # {}}

\* the scan dereferences current_config of every routing model
\* (cfg.get on None raises AttributeError)
EvictionScanRaises ==
  \E n \in Models : models_state[n].status = "routing"
                    /\ models_state[n].current_config = "none"

\* mutant of FirstCandidate: the most recently used candidate comes first
FirstCandidate_Newest(cands) ==
  CHOOSE n \in cands :
    \A o \in cands :
      \/ models_state[n].last_access > models_state[o].last_access
      \/ /\ models_state[n].last_access = models_state[o].last_access
         /\ IndexOf(n) <= IndexOf(o)

\* candidates.sort(key=last_access or 0) is stable: ties keep config order
FirstCandidate(cands) ==
  CHOOSE n \in cands :
    \A o \in cands :
      \/ models_state[n].last_access < models_state[o].last_access
      \/ /\ models_state[n].last_access = models_state[o].last_access
         /\ IndexOf(n) <= IndexOf(o)

\* ------------------------------------------------------------ lock helpers

\* state['lock'] is an RLock: free, or re-entered by its holder
StateLockFree(m, t) == state_lock[m] \in {NoThread, t}

\* mutant of LockAvailable: acquire never blocks
LockAvailable_NoExclusion(m) == m \in Models

\* mutant of LockAvailable: one startup lock shared by all models
LockAvailable_Global(m) == \A n \in Models : startup_locks[n] = NoThread

\* model_lock.acquire(blocking=True, timeout=60) can take the lock
LockAvailable(m) == startup_locks[m] = NoThread

\* mutant of RecheckRouting: the second check is missing
RecheckRouting_Missing(m) == m \notin Models

\* start_model, second check under the startup lock
RecheckRouting(m) == models_state[m].status = "routing"

\* the event loop is not inside a synchronous admin endpoint
LoopFree == thr[Admin].pc = "idle"

\* mutant of Released: the finally clause does not release the lock
Released_Keeps(m) == [n \in Models |-> startup_locks[n]]

\* the finally clause of start_model: model_lock.release()
Released(m) == [startup_locks EXCEPT ![m] = NoThread]

\* a start_model call returns res to its caller: the admin endpoint returns at
\* once; a worker's result waits for the awaiting coroutine, if it still awaits
Returned(t, res) ==
  [thr EXCEPT ![t] =
     IF t = Admin \/ req[t].pc # "awaitStart" THEN IdleThr
     ELSE [pc |-> "ret", m |-> thr[t].m, key |-> "none", res |-> res, victim |-> "none"]]

At(t, pc) == [thr EXCEPT ![t].pc = pc]

\* ------------------------------------------------- process manager, stop

\* ProcessManager.stop_process(name, force=True)
stop_process(procs, n) ==
  IF procs[n].status \in {"running", "failed"}
  THEN [procs EXCEPT ![n].status = "stopped"]
  ELSE procs

\* mutant of StopModelState: no early return for an already stopped model
StopModelState_NoEarlyReturn(n) ==
  [models_state EXCEPT ![n].status = "stopped",
                       ![n].failure_reason = "User requested",
                       ![n].pid = 0,
                       ![n].current_config = "none"]

\* ModelController.stop_model: the model record after the call
StopModelState(n) ==
  IF models_state[n].status = "stopped" THEN models_state
  ELSE [models_state EXCEPT ![n].status = "stopped",
                            ![n].failure_reason = "User requested",
                            ![n].pid = 0,
                            ![n].current_config = "none"]

\* ModelController.stop_model: the process table after the call
StopModelProcs(n) ==
  IF models_state[n].status # "stopped" /\ models_state[n].pid # 0
  THEN stop_process(processes, n)
  ELSE processes

\* observation: an effective stop_model(n) ends the spawn epoch of n
StopObserved(h, n) ==
  IF models_state[n].status = "stopped" THEN h
  ELSE [h EXCEPT !.epoch[n] = "disturbed"]

\* the except clause of start_model: status = failed under the state lock
FailedState(m) ==
  [models_state EXCEPT ![m].status = "failed", ![m].failure_reason = "exception"]

\* --------------------------------------------------------------------- Init

\* the monitor thread is between two _update_device_status_once calls
NoProbe == [probed |-> FALSE, map |-> [d \in Devices |-> [online |-> FALSE, available |-> 0]]]

InitWith(sel, val, idle, dev) ==
  /\ models_state = [m \in Models |-> [status |-> "stopped", pid |-> 0,
                                       current_config |-> "none", last_access |-> 0,
                                       failure_reason |-> "none"]]
  /\ startup_locks = [m \in Models |-> NoThread]
  /\ state_lock = [m \in Models |-> NoThread]
  /\ processes = [m \in Models |-> [status |-> "none", key |-> "none"]]
  /\ hw_online = [d \in Devices |-> TRUE]
  /\ new_cache = NoProbe
  /\ device_status_cache = [d \in Devices |-> [online |-> TRUE, available |-> TotalMemory[d]]]
  /\ pending_requests = [m \in Models |-> 0]
  /\ starting_models = {}
  /\ req = [r \in Reqs |-> IdleReq]
  /\ thr = [t \in Threads |-> IdleThr]
  /\ clock = 1
  /\ reaper = "none"
  /\ budget = [admin |-> 0, hw |-> 0]
  /\ hist = [epoch |-> [m \in Models |-> "fresh"],
             marks |-> [r \in Reqs |-> 0],
             reqTouch |-> [m \in Models |-> 0],
             sel |-> sel,
             val |-> val,
             idle |-> idle,
             dev |-> dev]

\* no selector call on its own
NoSel == [variants |-> <<>>, online |-> {}, out |-> "none"]

\* no validate_request call on its own
NoVal == [mode |-> "none", path |-> <<>>, out |-> "none"]

\* no idle test on its own
NoIdle == [alive_time |-> AliveTime, status |-> "stopped", last_access |-> 0, now |-> 1,
           out |-> "none"]

\* what the probe of one device does: it reports the device online or
\* offline, or it raises
ProbeOutcomes == {"online", "offline", "raises"}

\* _update_device_status_once: the entry built for one device
DevEntry(outcome, avail) ==
  IF outcome = "online" THEN [online |-> TRUE, available |-> avail, error |-> FALSE]
  ELSE IF outcome = "offline" THEN [online |-> FALSE, available |-> 0, error |-> FALSE]
  ELSE [online |-> FALSE, available |-> 0, error |-> TRUE]

\* no update pass on its own
NoDev == [outcome |-> [d \in Devices |-> "online"], avail |-> TotalMemory,
          cache |-> [d \in Devices |-> DevEntry("online", TotalMemory[d])], updated |-> TRUE]

Init == InitWith(NoSel, NoVal, NoIdle, NoDev)

\* ------------------------------------------------------------- start_model

\* mutant of SMCheck: no fast path for a routing model
SMCheck_NoFastPath(t) ==
  /\ thr[t].pc = "check"
  /\ StateLockFree(thr[t].m, t)
  /\ thr' = At(t, "acquire")
  /\ UNCHANGED <<models_state, state_lock, startup_locks, processes, device_status_cache,
                 hw_online, new_cache, pending_requests, starting_models, req, clock, reaper, budget,
                 hist>>

\* mutant of SMCheck: the startup lock is acquired inside the state-lock block
SMCheck_KeepsStateLock(t) ==
  LET m == thr[t].m IN
  /\ thr[t].pc = "check"
  /\ StateLockFree(m, t)
  /\ IF models_state[m].status = "routing"
     THEN /\ models_state' = [models_state EXCEPT ![m].last_access = clock]
          /\ thr' = Returned(t, TRUE)
          /\ state_lock' = state_lock
     ELSE IF models_state[m].status = "starting"
     THEN /\ state_lock' = [state_lock EXCEPT ![m] = t]
          /\ thr' = At(t, "wait")
          /\ models_state' = models_state
     ELSE /\ state_lock' = [state_lock EXCEPT ![m] = t]
          /\ thr' = At(t, "acquire")
          /\ models_state' = models_state
  /\ UNCHANGED <<startup_locks, processes, device_status_cache, hw_online, new_cache,
                 pending_requests, starting_models, req, clock, reaper, budget, hist>>

\* start_model, first block under state['lock']
SMCheck(t) ==
  LET m == thr[t].m IN
  /\ thr[t].pc = "check"
  /\ StateLockFree(m, t)
  /\ IF models_state[m].status = "routing"
     THEN /\ models_state' = [models_state EXCEPT ![m].last_access = clock]
          /\ thr' = Returned(t, TRUE)
          /\ state_lock' = state_lock
     ELSE IF models_state[m].status = "starting"
     THEN /\ state_lock' = [state_lock EXCEPT ![m] = t]
          /\ thr' = At(t, "wait")
          /\ models_state' = models_state
     ELSE /\ thr' = At(t, "acquire")
          /\ UNCHANGED <<models_state, state_lock>>
  /\ UNCHANGED <<startup_locks, processes, device_status_cache, hw_online, new_cache,
                 pending_requests, starting_models, req, clock, reaper, budget, hist>>

\* _wait_for_model_startup runs inside the caller's `with state['lock']`: every
\* writer of status needs that lock, so all 120 polls read "starting"
SMWaitTimeout(t) ==
  LET m == thr[t].m IN
  /\ thr[t].pc = "wait"
  /\ state_lock' = [state_lock EXCEPT ![m] = NoThread]
  /\ thr' = Returned(t, FALSE)
  /\ UNCHANGED <<models_state, startup_locks, processes, device_status_cache, hw_online, new_cache,
                 pending_requests, starting_models, req, clock, reaper, budget, hist>>

\* model_lock.acquire succeeds
SMAcquire(t) ==
  LET m == thr[t].m IN
  /\ thr[t].pc = "acquire"
  /\ LockAvailable(m)
  /\ startup_locks' = [startup_locks EXCEPT ![m] = t]
  /\ thr' = At(t, "begin")
  /\ UNCHANGED <<models_state, state_lock, processes, device_status_cache, hw_online, new_cache,
                 pending_requests, starting_models, req, clock, reaper, budget, hist>>

\* model_lock.acquire times out after 60 s of the lock being held
SMAcquireTimeout(t) ==
  LET m == thr[t].m IN
  /\ thr[t].pc = "acquire"
  /\ startup_locks[m] \notin {NoThread, t}
  /\ thr' = Returned(t, FALSE)
  /\ UNCHANGED <<models_state, startup_locks, state_lock, processes, device_status_cache,
                 hw_online, new_cache, pending_requests, starting_models, req, clock, reaper,
                 budget, hist>>

\* start_model, block under the startup lock: recheck, then status = starting
SMBegin(t) ==
  LET m == thr[t].m IN
  /\ thr[t].pc = "begin"
  /\ StateLockFree(m, t)
  /\ IF RecheckRouting(m)
     THEN /\ thr' = Returned(t, TRUE)
          /\ startup_locks' = Released(m)
          /\ models_state' = models_state
     ELSE /\ models_state' = [models_state EXCEPT ![m].status = "starting",
                                                  ![m].failure_reason = "none"]
          /\ thr' = At(t, "select")
          /\ startup_locks' = startup_locks
  /\ UNCHANGED <<state_lock, processes, device_status_cache, hw_online, new_cache,
                 pending_requests, starting_models, req, clock, reaper, budget, hist>>

\* _start_model_intelligent: select the variant, publish current_config
SMSelect(t) ==
  LET m == thr[t].m
      k == get_adaptive_model_config(m, OnlineForSelection(m))
  IN
  /\ thr[t].pc = "select"
  /\ IF k = "none"
     THEN /\ thr' = Returned(t, FALSE)
          /\ startup_locks' = Released(m)
          /\ models_state' = models_state
     ELSE /\ models_state' = [models_state EXCEPT ![m].current_config = k]
          /\ thr' = [thr EXCEPT ![t].pc = "gate0", ![t].key = k]
          /\ startup_locks' = startup_locks
  /\ UNCHANGED <<state_lock, processes, device_status_cache, hw_online, new_cache,
                 pending_requests, starting_models, req, clock, reaper, budget, hist>>

\* _check_and_free_resources, attempt 0: snapshot, deficits, and when the
\* resources do not suffice the scan of _stop_idle_models_for_resources, which
\* takes and releases every model's state lock and picks the victim
SMGate0(t) ==
  LET m == thr[t].m
      rc == ResourceCheck(m, thr[t].key, device_status_cache)
      cands == EvictionCandidates(rc.deficit)
      victim == FirstCandidate(cands)
  IN
  /\ thr[t].pc = "gate0"
  /\ IF rc.ok
     THEN /\ thr' = At(t, "init")
          /\ UNCHANGED <<models_state, startup_locks, processes, hist>>
     ELSE IF EvictionScanRaises
     THEN /\ \A n \in Models : StateLockFree(n, t)
          /\ models_state' = FailedState(m)
          /\ thr' = Returned(t, FALSE)
          /\ startup_locks' = Released(m)
          /\ UNCHANGED <<processes, hist>>
     ELSE IF cands = {}
     THEN /\ \A n \in Models : StateLockFree(n, t)
          /\ thr' = Returned(t, FALSE)
          /\ startup_locks' = Released(m)
          /\ UNCHANGED <<models_state, processes, hist>>
     ELSE /\ \A n \in Models : StateLockFree(n, t)
          /\ thr' = [thr EXCEPT ![t].pc = "evict", ![t].victim = victim]
          /\ UNCHANGED <<models_state, startup_locks, processes, hist>>
  /\ UNCHANGED <<state_lock, device_status_cache, hw_online, new_cache, pending_requests,
                 starting_models, req, clock, reaper, budget>>

\* _stop_idle_models_for_resources after the scan: stop_model on the first
\* candidate of the sorted list, whatever became of it since the scan
SMEvict(t) ==
  LET victim == thr[t].victim IN
  /\ thr[t].pc = "evict"
  /\ StateLockFree(victim, t)
  /\ models_state' = StopModelState(victim)
  /\ processes' = StopModelProcs(victim)
  /\ hist' = StopObserved(hist, victim)
  /\ thr' = [thr EXCEPT ![t].pc = "refresh", ![t].victim = "none"]
  /\ UNCHANGED <<startup_locks, state_lock, device_status_cache, hw_online, new_cache,
                 pending_requests, starting_models, req, clock, reaper, budget>>

\* mutant of SMGate1: the second pass evicts once more
SMGate1_EvictsAgain(t) ==
  LET m == thr[t].m
      rc == ResourceCheck(m, thr[t].key, device_status_cache)
      cands == EvictionCandidates(rc.deficit)
  IN
  /\ thr[t].pc = "gate1"
  /\ IF rc.ok
     THEN /\ thr' = At(t, "init")
          /\ UNCHANGED <<startup_locks, models_state, processes>>
     ELSE /\ thr' = Returned(t, FALSE)
          /\ startup_locks' = Released(m)
          /\ models_state' = IF cands = {} THEN models_state
                             ELSE StopModelState(FirstCandidate(cands))
          /\ processes' = IF cands = {} THEN processes
                          ELSE StopModelProcs(FirstCandidate(cands))
  /\ UNCHANGED <<state_lock, device_status_cache, hw_online, new_cache, pending_requests,
                 starting_models, req, clock, reaper, budget, hist>>

\* _check_and_free_resources after the 3 s sleep: the forced
\* _update_device_status_once on the caller's thread
SMRefresh(t) ==
  /\ thr[t].pc = "refresh"
  /\ device_status_cache' = update_device_status_once(processes, hw_online)
  /\ thr' = At(t, "gate1")
  /\ UNCHANGED <<models_state, startup_locks, state_lock, processes, hw_online, new_cache,
                 pending_requests, starting_models, req, clock, reaper, budget, hist>>

\* _check_and_free_resources, attempt 1: snapshot of the cache, deficits
SMGate1(t) ==
  LET m == thr[t].m
      rc == ResourceCheck(m, thr[t].key, device_status_cache)
  IN
  /\ thr[t].pc = "gate1"
  /\ IF rc.ok
     THEN /\ thr' = At(t, "init")
          /\ startup_locks' = startup_locks
     ELSE /\ thr' = Returned(t, FALSE)
          /\ startup_locks' = Released(m)
  /\ UNCHANGED <<models_state, state_lock, processes, device_status_cache, hw_online,
                 new_cache, pending_requests, starting_models, req, clock, reaper, budget,
                 hist>>

\* prepare_model_log (may raise OSError), then status = init_script
SMInit(t) ==
  LET m == thr[t].m IN
  /\ thr[t].pc = "init"
  /\ StateLockFree(m, t)
  /\ \E raises \in BOOLEAN :
       IF raises
       THEN /\ models_state' = FailedState(m)
            /\ thr' = Returned(t, FALSE)
            /\ startup_locks' = Released(m)
       ELSE /\ models_state' = [models_state EXCEPT ![m].status = "init_script"]
            /\ thr' = At(t, "spawn")
            /\ startup_locks' = startup_locks
  /\ UNCHANGED <<state_lock, processes, device_status_cache, hw_online, new_cache,
                 pending_requests, starting_models, req, clock, reaper, budget, hist>>

\* observation of a start_process call for m: the first of an undisturbed
\* epoch, a further one ("respawned"), or one in an epoch that a stop_model or
\* a failed Popen disturbed
SpawnObserved(h, m, popen_ok) ==
  [h EXCEPT !.epoch[m] =
     IF @ = "disturbed" \/ ~popen_ok THEN "disturbed"
     ELSE IF @ = "fresh" THEN "spawned"
     ELSE "respawned"]

\* process_manager.start_process("model_<name>", script_path)
SMSpawn(t) ==
  LET m == thr[t].m IN
  /\ thr[t].pc = "spawn"
  /\ IF processes[m].status = "running"
     THEN /\ thr' = Returned(t, FALSE)
          /\ startup_locks' = Released(m)
          /\ processes' = processes
          /\ hist' = SpawnObserved(hist, m, TRUE)
     ELSE \E ok \in BOOLEAN :
            IF ok
            THEN /\ processes' = [processes EXCEPT ![m] = [status |-> "running", key |-> thr[t].key]]
                 /\ thr' = At(t, "recpid")
                 /\ startup_locks' = startup_locks
                 /\ hist' = SpawnObserved(hist, m, TRUE)
            ELSE /\ processes' = [processes EXCEPT ![m] = [status |-> "failed", key |-> "none"]]
                 /\ thr' = Returned(t, FALSE)
                 /\ startup_locks' = Released(m)
                 /\ hist' = SpawnObserved(hist, m, FALSE)
  /\ UNCHANGED <<models_state, state_lock, device_status_cache, hw_online, new_cache,
                 pending_requests, starting_models, req, clock, reaper, budget>>

\* state['pid'] = pid, then status = health_check under the state lock
SMRecordPid(t) ==
  LET m == thr[t].m IN
  /\ thr[t].pc = "recpid"
  /\ StateLockFree(m, t)
  /\ models_state' = [models_state EXCEPT ![m].pid = 1, ![m].status = "health_check"]
  /\ thr' = At(t, "probe")
  /\ UNCHANGED <<startup_locks, state_lock, processes, device_status_cache, hw_online, new_cache,
                 pending_requests, starting_models, req, clock, reaper, budget, hist>>

\* interface.health_check(name, port): succeeds only against a live child
SMHealthProbe(t) ==
  LET m == thr[t].m IN
  /\ thr[t].pc = "probe"
  /\ \E ok \in BOOLEAN :
       /\ ok => processes[m].status = "running"
       /\ thr' = At(t, IF ok THEN "hok" ELSE "hfail")
  /\ UNCHANGED <<models_state, startup_locks, state_lock, processes, device_status_cache,
                 hw_online, new_cache, pending_requests, starting_models, req, clock, reaper,
                 budget, hist>>

\* _perform_health_checks, success branch: status = routing, last_access = now
SMHealthOk(t) ==
  LET m == thr[t].m IN
  /\ thr[t].pc = "hok"
  /\ StateLockFree(m, t)
  /\ models_state' = [models_state EXCEPT ![m].status = "routing",
                                          ![m].last_access = clock]
  /\ thr' = Returned(t, TRUE)
  /\ startup_locks' = Released(m)
  /\ UNCHANGED <<state_lock, processes, device_status_cache, hw_online, new_cache,
                 pending_requests, starting_models, req, clock, reaper, budget, hist>>

\* _perform_health_checks, failure branch: stop_model(name)
SMHealthFail(t) ==
  LET m == thr[t].m IN
  /\ thr[t].pc = "hfail"
  /\ StateLockFree(m, t)
  /\ models_state' = StopModelState(m)
  /\ processes' = StopModelProcs(m)
  /\ hist' = StopObserved(hist, m)
  /\ thr' = Returned(t, FALSE)
  /\ startup_locks' = Released(m)
  /\ UNCHANGED <<state_lock, device_status_cache, hw_online, new_cache, pending_requests,
                 starting_models, req, clock, reaper, budget>>

\* ----------------------------------------------------------------- gateway

\* _touch_model_activity
Touched(ms, m) == [ms EXCEPT ![m].last_access = clock]

\* increment_pending_requests
Incremented(m) == [pending_requests EXCEPT ![m] = @ + 1]

\* mark_request_completed: max(0, n - 1)
Decremented(m) ==
  [pending_requests EXCEPT ![m] = IF @ > 0 THEN @ - 1 ELSE 0]

\* mutant of LoopIteration: the loop is left as soon as the child is spawned
LoopIteration_BreaksEarly(r, m, sm, th) ==
  IF models_state[m].status \in {"routing", "health_check"}
  THEN /\ req' = [req EXCEPT ![r] = [pc |-> "send", m |-> m, code |-> "none"]]
       /\ starting_models' = sm
       /\ thr' = th
  ELSE IF models_state[m].status \in STARTUP_STATES \/ m \in sm
  THEN /\ req' = [req EXCEPT ![r] = [pc |-> "sleep", m |-> m, code |-> "none"]]
       /\ starting_models' = sm
       /\ thr' = th
  ELSE /\ req' = [req EXCEPT ![r] = [pc |-> "awaitStart", m |-> m, code |-> "none"]]
       /\ starting_models' = sm \cup {m}
       /\ thr' = [th EXCEPT ![r] = [pc |-> "check", m |-> m, key |-> "none", res |-> FALSE,
                                  victim |-> "none"]]

\* route_request, one iteration of the startup-wait loop for request r on model
\* m, with starting_models = sm and the start_model calls = th on entry
LoopIteration(r, m, sm, th) ==
  IF models_state[m].status = "routing"
  THEN /\ req' = [req EXCEPT ![r] = [pc |-> "send", m |-> m, code |-> "none"]]
       /\ starting_models' = sm
       /\ thr' = th
  ELSE IF models_state[m].status \in STARTUP_STATES \/ m \in sm
  THEN /\ req' = [req EXCEPT ![r] = [pc |-> "sleep", m |-> m, code |-> "none"]]
       /\ starting_models' = sm
       /\ thr' = th
  ELSE /\ req' = [req EXCEPT ![r] = [pc |-> "awaitStart", m |-> m, code |-> "none"]]
       /\ starting_models' = sm \cup {m}
       /\ thr' = [th EXCEPT ![r] = [pc |-> "check", m |-> m, key |-> "none", res |-> FALSE,
                                  victim |-> "none"]]

\* mutant of Completed: an error answer also stops the model
Completed_StopsOnError(r, m, code) ==
  /\ StateLockFree(m, Admin)
  /\ pending_requests' = Decremented(m)
  /\ models_state' = IF code \in {"500", "503"}
                     THEN [models_state EXCEPT ![m].status = "stopped", ![m].pid = 0,
                                               ![m].current_config = "none",
                                               ![m].last_access = clock]
                     ELSE Touched(models_state, m)
  /\ hist' = [hist EXCEPT !.marks[r] = @ + 1, !.reqTouch[m] = clock]
  /\ req' = [req EXCEPT ![r] = [pc |-> "done", m |-> m, code |-> code]]

\* the request ends with mark_request_completed and the answer `code`
Completed(r, m, code) ==
  /\ StateLockFree(m, Admin)
  /\ pending_requests' = Decremented(m)
  /\ models_state' = Touched(models_state, m)
  /\ hist' = [hist EXCEPT !.marks[r] = @ + 1, !.reqTouch[m] = clock]
  /\ req' = [req EXCEPT ![r] = [pc |-> "done", m |-> m, code |-> code]]

\* route_request: validation passed, increment, first loop iteration
GwEnter(r, m) ==
  /\ LoopFree
  /\ req[r].pc = "idle"
  /\ thr[r].pc = "idle"
  /\ StateLockFree(m, Admin)
  /\ pending_requests' = Incremented(m)
  /\ models_state' = Touched(models_state, m)
  /\ hist' = [hist EXCEPT !.reqTouch[m] = clock]
  /\ LoopIteration(r, m, starting_models, thr)
  /\ UNCHANGED <<startup_locks, state_lock, processes, device_status_cache, hw_online, new_cache,
                 clock, reaper, budget>>

\* route_request: the coroutine wakes from asyncio.sleep(0.5)
GwPoll(r) ==
  /\ LoopFree
  /\ req[r].pc = "sleep"
  /\ LoopIteration(r, req[r].m, starting_models, thr)
  /\ UNCHANGED <<models_state, startup_locks, state_lock, processes, device_status_cache,
                 hw_online, new_cache, pending_requests, clock, reaper, budget, hist>>

\* mutant of GwStartReturn: the result of start_model is not looked at
GwStartReturn_IgnoresFailure(r) ==
  /\ LoopFree
  /\ req[r].pc = "awaitStart"
  /\ thr[r].pc = "ret"
  /\ LoopIteration(r, req[r].m, starting_models \ {req[r].m}, [thr EXCEPT ![r] = IdleThr])
  /\ UNCHANGED <<models_state, pending_requests, hist, startup_locks, state_lock,
                 processes, device_status_cache, hw_online, new_cache, clock, reaper, budget>>

\* mutant of GwStartReturn: the failure path leaves the name in starting_models
GwStartReturn_KeepsOnFailure(r) ==
  /\ LoopFree
  /\ req[r].pc = "awaitStart"
  /\ thr[r].pc = "ret"
  /\ IF thr[r].res
     THEN /\ LoopIteration(r, req[r].m, starting_models \ {req[r].m},
                           [thr EXCEPT ![r] = IdleThr])
          /\ UNCHANGED <<models_state, pending_requests, hist>>
     ELSE /\ Completed(r, req[r].m, "503")
          /\ starting_models' = starting_models
          /\ thr' = [thr EXCEPT ![r] = IdleThr]
  /\ UNCHANGED <<startup_locks, state_lock, processes, device_status_cache, hw_online, new_cache,
                 clock, reaper, budget>>

\* route_request: await asyncio.to_thread(start_model) returns
GwStartReturn(r) ==
  LET m == req[r].m
      sm == starting_models \ {m}
      th == [thr EXCEPT ![r] = IdleThr]
  IN
  /\ LoopFree
  /\ req[r].pc = "awaitStart"
  /\ thr[r].pc = "ret"
  /\ IF thr[r].res
     THEN /\ LoopIteration(r, m, sm, th)
          /\ UNCHANGED <<models_state, pending_requests, hist>>
     ELSE /\ Completed(r, m, "503")
          /\ starting_models' = sm
          /\ thr' = th
  /\ UNCHANGED <<startup_locks, state_lock, processes, device_status_cache, hw_online, new_cache,
                 clock, reaper, budget>>

\* route_request: await client.send(req, stream=True) returns or raises
GwSend(r) ==
  /\ LoopFree
  /\ req[r].pc = "send"
  /\ \E ok \in BOOLEAN :
       IF ok
       THEN /\ req' = [req EXCEPT ![r].pc = "streaming"]
            /\ UNCHANGED <<models_state, pending_requests, hist>>
       ELSE Completed(r, req[r].m, "500")
  /\ UNCHANGED <<startup_locks, state_lock, processes, device_status_cache, hw_online, new_cache,
                 starting_models, thr, clock, reaper, budget>>

\* stream_wrapper's finally: the stream ended, failed, or the client went away
GwStreamEnd(r) ==
  /\ LoopFree
  /\ req[r].pc = "streaming"
  /\ Completed(r, req[r].m, "200")
  /\ UNCHANGED <<startup_locks, state_lock, processes, device_status_cache, hw_online, new_cache,
                 starting_models, thr, clock, reaper, budget>>

\* the handler task is cancelled at an await of route_request: CancelledError
\* is a BaseException, so neither `except Exception` clause runs; only the
\* finally clause around to_thread does
GwCancel(r) ==
  LET m == req[r].m IN
  /\ LoopFree
  /\ req[r].pc \in {"sleep", "awaitStart", "send"}
  /\ req' = [req EXCEPT ![r] = [pc |-> "done", m |-> m, code |-> "cancelled"]]
  /\ starting_models' = IF req[r].pc = "awaitStart" THEN starting_models \ {m}
                        ELSE starting_models
  /\ thr' = IF thr[r].pc = "ret" THEN [thr EXCEPT ![r] = IdleThr] ELSE thr
  /\ UNCHANGED <<models_state, startup_locks, state_lock, processes, device_status_cache,
                 hw_online, new_cache, pending_requests, clock, reaper, budget, hist>>

\* ------------------------------------------------------------------- admin

\* POST /api/models/{alias}/start: start_model on the event loop thread
AdminStart(m) ==
  /\ LoopFree
  /\ budget.admin < MaxAdmin
  /\ budget' = [budget EXCEPT !.admin = @ + 1]
  /\ thr' = [thr EXCEPT ![Admin] = [pc |-> "check", m |-> m, key |-> "none", res |-> FALSE,
                                  victim |-> "none"]]
  /\ UNCHANGED <<models_state, startup_locks, state_lock, processes, device_status_cache,
                 hw_online, new_cache, pending_requests, starting_models, req, clock, reaper, hist>>

\* POST /api/models/{alias}/stop: stop_model on the event loop thread
AdminStop(m) ==
  /\ LoopFree
  /\ budget.admin < MaxAdmin
  /\ StateLockFree(m, Admin)
  /\ budget' = [budget EXCEPT !.admin = @ + 1]
  /\ models_state' = StopModelState(m)
  /\ processes' = StopModelProcs(m)
  /\ hist' = StopObserved(hist, m)
  /\ UNCHANGED <<startup_locks, state_lock, device_status_cache, hw_online, new_cache,
                 pending_requests, starting_models, req, thr, clock, reaper>>

\* stop_model(m) racing the starter's unlocked state['pid'] = pid: stop_model
\* reads pid = None and skips stop_process, the starter stores its pid, stop_model
\* overwrites it with None and releases the state lock; the starter then sets
\* status = health_check under the lock
AdminStop_RacesPidStore(m) ==
  /\ LoopFree
  /\ budget.admin < MaxAdmin
  /\ StateLockFree(m, Admin)
  /\ models_state[m].status # "stopped"
  /\ models_state[m].pid = 0
  /\ \E t \in Reqs :
       /\ thr[t].pc = "recpid"
       /\ thr[t].m = m
       /\ thr' = At(t, "probe")
  /\ budget' = [budget EXCEPT !.admin = @ + 1]
  /\ models_state' = [StopModelState(m) EXCEPT ![m].status = "health_check"]
  /\ hist' = StopObserved(hist, m)
  /\ UNCHANGED <<startup_locks, state_lock, processes, device_status_cache, hw_online,
                 new_cache, pending_requests, starting_models, req, clock, reaper>>

\* ------------------------------------------------------------ idle reaper

\* mutant of ReaperDue: alive_time <= 0 does not switch the reaper off
ReaperDue_NoSwitch(alive_time, status, last_access, now) ==
  /\ status = "routing"
  /\ last_access # 0
  /\ now - last_access > alive_time

\* idle_check_loop: the test that precedes stop_model (alive_time in clock ticks)
ReaperDue(alive_time, status, last_access, now) ==
  /\ alive_time > 0
  /\ status = "routing"
  /\ last_access # 0
  /\ now - last_access > alive_time

\* idle_check_loop: the lock-free test of one model
ReaperCheck(m) ==
  /\ reaper = "none"
  /\ ReaperDue(AliveTime, models_state[m].status, models_state[m].last_access, clock)
  /\ reaper' = m
  /\ UNCHANGED <<models_state, startup_locks, state_lock, processes, device_status_cache,
                 hw_online, new_cache, pending_requests, starting_models, req, thr, clock, budget,
                 hist>>

\* idle_check_loop: the stop_model call that follows a passed test
ReaperStop ==
  /\ reaper # "none"
  /\ StateLockFree(reaper, NoThread)
  /\ models_state' = StopModelState(reaper)
  /\ processes' = StopModelProcs(reaper)
  /\ hist' = StopObserved(hist, reaper)
  /\ reaper' = "none"
  /\ UNCHANGED <<startup_locks, state_lock, device_status_cache, hw_online, new_cache,
                 pending_requests, starting_models, req, thr, clock, budget>>

\* ------------------------------------------------------------- environment

\* time passes
Tick ==
  /\ clock < MaxTime
  /\ clock' = clock + 1
  /\ UNCHANGED <<models_state, startup_locks, state_lock, processes, device_status_cache,
                 hw_online, new_cache, pending_requests, starting_models, req, thr, reaper, budget,
                 hist>>

\* _update_device_status_once of the monitor thread, first half: every device
\* is probed into the local new_cache (the probes may block)
MonitorProbe ==
  /\ ~new_cache.probed
  /\ new_cache' = [probed |-> TRUE, map |-> update_device_status_once(processes, hw_online)]
  /\ UNCHANGED <<models_state, startup_locks, state_lock, processes, device_status_cache,
                 hw_online, pending_requests, starting_models, req, thr, clock, reaper,
                 budget, hist>>

\* _update_device_status_once of the monitor thread, second half: the local
\* map replaces the cache under cache_lock
MonitorStore ==
  /\ new_cache.probed
  /\ device_status_cache' = new_cache.map
  /\ new_cache' = NoProbe
  /\ UNCHANGED <<models_state, startup_locks, state_lock, processes, hw_online,
                 pending_requests, starting_models, req, thr, clock, reaper, budget, hist>>

\* _monitor_devices_loop: one periodic refresh whose probes return at once
DeviceMonitor ==
  /\ ~new_cache.probed
  /\ device_status_cache' = update_device_status_once(processes, hw_online)
  /\ device_status_cache' # device_status_cache
  /\ UNCHANGED <<models_state, startup_locks, state_lock, processes, hw_online, new_cache,
                 pending_requests, starting_models, req, thr, clock, reaper, budget, hist>>

\* a device goes offline or comes back
HwFlip(d) ==
  /\ budget.hw < MaxHwFlips
  /\ budget' = [budget EXCEPT !.hw = @ + 1]
  /\ hw_online' = [hw_online EXCEPT ![d] = ~@]
  /\ UNCHANGED <<new_cache, models_state, startup_locks, state_lock, processes, device_status_cache,
                 pending_requests, starting_models, req, thr, clock, reaper, hist>>

\* --------------------------------------------------------------- the system

\* the steps of every start_model call
StartModelStep ==
  \/ \E t \in Threads : SMCheck(t)
  \/ \E t \in Threads : SMWaitTimeout(t)
  \/ \E t \in Threads : SMAcquire(t)
  \/ \E t \in Threads : SMAcquireTimeout(t)
  \/ \E t \in Threads : SMBegin(t)
  \/ \E t \in Threads : SMSelect(t)
  \/ \E t \in Threads : SMGate0(t)
  \/ \E t \in Threads : SMEvict(t)
  \/ \E t \in Threads : SMRefresh(t)
  \/ \E t \in Threads : SMGate1(t)
  \/ \E t \in Threads : SMInit(t)
  \/ \E t \in Threads : SMSpawn(t)
  \/ \E t \in Threads : SMRecordPid(t)
  \/ \E t \in Threads : SMHealthProbe(t)
  \/ \E t \in Threads : SMHealthOk(t)
  \/ \E t \in Threads : SMHealthFail(t)

\* the steps of every route_request coroutine
GatewayStep ==
  \/ \E r \in Reqs, m \in Addressed : GwEnter(r, m)
  \/ \E r \in Reqs : GwPoll(r)
  \/ \E r \in Reqs : GwStartReturn(r)
  \/ \E r \in Reqs : GwSend(r)
  \/ \E r \in Reqs : GwStreamEnd(r)
  \/ \E r \in Reqs : GwCancel(r)

\* gateway, admin endpoints, device monitor and hardware, with the clock standing still
Next ==
  \/ StartModelStep
  \/ GatewayStep
  \/ \E m \in Addressed : AdminStart(m)
  \/ \E m \in Addressed : AdminStop(m)
  \/ \E m \in Addressed : AdminStop_RacesPidStore(m)
  \/ DeviceMonitor
  \/ \E d \in Devices : HwFlip(d)

Spec == Init /\ [][Next]_vars

\* gateway, idle reaper and device monitor, with time passing and the
\* hardware steady
NextReaper ==
  \/ StartModelStep
  \/ GatewayStep
  \/ \E m \in Models : ReaperCheck(m)
  \/ ReaperStop
  \/ Tick
  \/ DeviceMonitor

SpecReaper == Init /\ [][NextReaper]_vars

\* ------------------------------------------------- the selector on its own

\* device names the variant blocks may require
SelDevices == {"gpu0", "cpu"}

\* variant lists in definition order: block i has key "v<i>"
SelKeys == <<"v1", "v2", "v3", "v4">>

SelVariantLists ==
  UNION {[1..n -> SUBSET SelDevices] : n \in 0..MaxVariants}

SelBlocks(f) ==
  [i \in DOMAIN f |-> [key |-> SelKeys[i], required_devices |-> f[i]]]

InitSelect ==
  \E f \in SelVariantLists, O \in SUBSET SelDevices :
    InitWith([variants |-> SelBlocks(f), online |-> O, out |-> "pending"], NoVal, NoIdle, NoDev)

\* one get_adaptive_model_config call on the drawn inputs
SelectCall ==
  /\ hist.sel.out = "pending"
  /\ hist' = [hist EXCEPT !.sel.out = SelectVariant(hist.sel.variants, hist.sel.online)]
  /\ UNCHANGED <<models_state, startup_locks, state_lock, processes, device_status_cache,
                 hw_online, new_cache, pending_requests, starting_models, req, thr, clock, reaper,
                 budget>>

NextSelect == SelectCall

SpecSelect == InitSelect /\ [][NextSelect]_vars

\* ------------------------------------------------- eviction among several

\* a and b serve (both passed the gate on a cache older than the other's
\* spawn), each last used at a drawn time; the operator then starts c
InitEvict ==
  \E la \in 1..MaxStamp, lb \in 1..MaxStamp :
    /\ models_state =
         [m \in Models |->
            IF m \in Addressed
            THEN [status |-> "routing", pid |-> 1, current_config |-> "gpu",
                  last_access |-> IF m = "a" THEN la ELSE lb, failure_reason |-> "none"]
            ELSE [status |-> "stopped", pid |-> 0, current_config |-> "none",
                  last_access |-> 0, failure_reason |-> "none"]]
    /\ startup_locks = [m \in Models |-> NoThread]
    /\ state_lock = [m \in Models |-> NoThread]
    /\ processes = [m \in Models |-> IF m \in Addressed
                                      THEN [status |-> "running", key |-> "gpu"]
                                      ELSE [status |-> "none", key |-> "none"]]
    /\ hw_online = [d \in Devices |-> TRUE]
    /\ new_cache = NoProbe
    /\ device_status_cache = update_device_status_once(processes, hw_online)
    /\ pending_requests = [m \in Models |-> 0]
    /\ starting_models = {}
    /\ req = [r \in Reqs |-> IdleReq]
    /\ thr = [t \in Threads |-> IdleThr]
    /\ clock = MaxStamp + 1
    /\ reaper = "none"
    /\ budget = [admin |-> 0, hw |-> 0]
    /\ hist = [epoch |-> [m \in Models |-> IF m \in Addressed THEN "spawned" ELSE "fresh"],
               marks |-> [r \in Reqs |-> 0],
               reqTouch |-> [m \in Models |-> 0],
               sel |-> NoSel,
               val |-> NoVal,
               idle |-> NoIdle,
               dev |-> NoDev]

\* POST /api/models/c/start, and every step of that start_model call
NextEvict ==
  \/ AdminStart("c")
  \/ SMCheck(Admin)
  \/ SMAcquire(Admin)
  \/ SMBegin(Admin)
  \/ SMSelect(Admin)
  \/ SMGate0(Admin)
  \/ SMEvict(Admin)
  \/ SMRefresh(Admin)
  \/ SMGate1(Admin)
  \/ SMInit(Admin)
  \/ SMSpawn(Admin)
  \/ SMRecordPid(Admin)
  \/ SMHealthProbe(Admin)
  \/ SMHealthOk(Admin)
  \/ SMHealthFail(Admin)
  \/ MonitorProbe
  \/ MonitorStore

SpecEvict == InitEvict /\ [][NextEvict]_vars

\* -------------------------------------- selection with monitoring disabled

\* _start_model_intelligent up to the selector's answer, with
\* Disable_GPU_monitoring set, on the drawn variant list and cached online set
SelectTrusted ==
  /\ hist.sel.out = "pending"
  /\ hist' = [hist EXCEPT !.sel.out =
                SelectVariant(hist.sel.variants,
                              SelectionOnline(hist.sel.variants, hist.sel.online, TRUE))]
  /\ UNCHANGED <<models_state, startup_locks, state_lock, processes, device_status_cache,
                 hw_online, new_cache, pending_requests, starting_models, req, thr, clock,
                 reaper, budget>>

NextTrust == SelectTrusted

SpecTrust == InitSelect /\ [][NextTrust]_vars

\* ------------------------------------------ one device-cache update pass

\* mutant of UpdatePass: a raising probe ends the pass, the old map stays
UpdatePass_AbortsOnRaise(old, outcome, avail) ==
  IF \E d \in Devices : outcome[d] = "raises" THEN old
  ELSE [d \in Devices |-> DevEntry(outcome[d], avail[d])]

\* _update_device_status_once: new_cache, which replaces the old map
UpdatePass(old, outcome, avail) ==
  [d \in Devices |-> DevEntry(outcome[d], avail[d])]

InitUpdate ==
  \E outcome \in [Devices -> ProbeOutcomes], was \in [Devices -> ProbeOutcomes],
     avail \in [Devices -> {0, 1}] :
    InitWith(NoSel, NoVal, NoIdle,
             [outcome |-> outcome, avail |-> avail,
              cache |-> [d \in Devices |-> DevEntry(was[d], TotalMemory[d])],
              updated |-> FALSE])

\* one _update_device_status_once call on the drawn probe outcomes
UpdateCall ==
  /\ ~hist.dev.updated
  /\ hist' = [hist EXCEPT !.dev.cache = UpdatePass(hist.dev.cache, hist.dev.outcome,
                                                   hist.dev.avail),
                          !.dev.updated = TRUE]
  /\ UNCHANGED <<models_state, startup_locks, state_lock, processes, device_status_cache,
                 hw_online, new_cache, pending_requests, starting_models, req, thr, clock,
                 reaper, budget>>

NextUpdate == UpdateCall

SpecUpdate == InitUpdate /\ [][NextUpdate]_vars

\* ------------------------------------------------ the idle test on its own

\* alive_time settings of the program config, from below zero up
AliveTimes == -1..MaxStamp

InitIdle ==
  \E at \in AliveTimes, st \in Statuses, la \in 0..MaxStamp, now \in 1..(MaxStamp + 1) :
    InitWith(NoSel, NoVal,
             [alive_time |-> at, status |-> st, last_access |-> la, now |-> now,
              out |-> "pending"],
             NoDev)

\* one iteration of idle_check_loop over one model with the drawn values
IdleCall ==
  /\ hist.idle.out = "pending"
  /\ hist' = [hist EXCEPT !.idle.out =
                IF ReaperDue(hist.idle.alive_time, hist.idle.status,
                             hist.idle.last_access, hist.idle.now)
                THEN "stop_model" ELSE "skip"]
  /\ UNCHANGED <<models_state, startup_locks, state_lock, processes, device_status_cache,
                 hw_online, new_cache, pending_requests, starting_models, req, thr, clock,
                 reaper, budget>>

NextIdle == IdleCall

SpecIdle == InitIdle /\ [][NextIdle]_vars

\* ------------------------------------------- request validation on its own

\* path segments of the inbound URL ("v1/chat/completions" is <<"v1", "chat", "completions">>)
Segments == {"v1", "chat", "completions", "embeddings"}

Paths == UNION {[1..n -> Segments] : n \in 0..MaxSegments}

Modes == {"Chat", "Embedding"}

\* Python's `pat in path` on slash-joined segments
Contains(path, pat) ==
  \E i \in 1..(Len(path) - Len(pat) + 1) : SubSeq(path, i, i + Len(pat) - 1) = pat

\* ChatInterface.validate_request / EmbeddingInterface.validate_request
validate_request(mode, path) ==
  LET is_completion_endpoint == Contains(path, <<"v1", "completions">>)
      is_chat_endpoint == Contains(path, <<"v1", "chat", "completions">>)
  IN IF mode = "Chat" THEN ~is_completion_endpoint
     ELSE ~(is_chat_endpoint \/ is_completion_endpoint)

InitValidate ==
  \E mode \in Modes, path \in Paths :
    InitWith(NoSel, [mode |-> mode, path |-> path, out |-> "pending"], NoIdle, NoDev)

\* route_request, step 3: validate_request, HTTPException(400) when rejected
GwValidate ==
  /\ hist.val.out = "pending"
  /\ hist' = [hist EXCEPT !.val.out =
                IF validate_request(hist.val.mode, hist.val.path) THEN "accepted" ELSE "400"]
  /\ UNCHANGED <<models_state, startup_locks, state_lock, processes, device_status_cache,
                 hw_online, new_cache, pending_requests, starting_models, req, thr, clock, reaper,
                 budget>>

NextValidate == GwValidate

SpecValidate == InitValidate /\ [][NextValidate]_vars

\* ------------------------------------------------- requests turned away

\* ConfigManager.alias_to_primary_name: every entry's aliases, the first of
\* which is its primary name; entry a has the second alias "a1"
alias_to_primary_name == [n \in Models \cup {"a1"} |-> IF n = "a1" THEN "a" ELSE n]

\* the model field of a request body: an alias, a name that is not
\* configured, or no field at all ("none")
Aliases == DOMAIN alias_to_primary_name \cup {"x", "none"}

EntryPaths == {<<"v1", "chat", "completions">>, <<"v1", "completions">>, <<"v1", "embeddings">>}

\* ConfigManager.resolve_primary_name: alias_to_primary_name.get(alias, alias)
resolve_primary_name(alias) ==
  IF alias \in DOMAIN alias_to_primary_name THEN alias_to_primary_name[alias] ELSE alias

\* ConfigManager.get_model_config(name) is not None
HasConfig(name) == resolve_primary_name(name) \in Models

\* route_request, steps 1 to 3: the status of the HTTPException, or "ok"
EntryCheck(alias, path) ==
  LET model_name == resolve_primary_name(alias) IN
  IF alias = "none" THEN "400"
  ELSE IF ~HasConfig(model_name) THEN "404"
  ELSE IF ModelMode[model_name] \notin InterfacePlugins THEN "400"
  ELSE IF ~validate_request(ModelMode[model_name], path) THEN "400"
  ELSE "ok"

\* mutant of GwReject: the counter is raised before the request is validated
GwReject_CountsFirst(r, alias, path) ==
  /\ LoopFree
  /\ req[r].pc = "idle"
  /\ thr[r].pc = "idle"
  /\ EntryCheck(alias, path) # "ok"
  /\ pending_requests' = IF HasConfig(alias) THEN Incremented(resolve_primary_name(alias))
                         ELSE pending_requests
  /\ req' = [req EXCEPT ![r] = [pc |-> "done", m |-> "none", code |-> EntryCheck(alias, path)]]
  /\ UNCHANGED <<models_state, startup_locks, state_lock, processes, device_status_cache,
                 hw_online, new_cache, starting_models, thr, clock, reaper, budget, hist>>

\* route_request: an HTTPException raised in steps 1 to 3 ends the request
GwReject(r, alias, path) ==
  /\ LoopFree
  /\ req[r].pc = "idle"
  /\ thr[r].pc = "idle"
  /\ EntryCheck(alias, path) # "ok"
  /\ req' = [req EXCEPT ![r] = [pc |-> "done", m |-> "none", code |-> EntryCheck(alias, path)]]
  /\ UNCHANGED <<models_state, startup_locks, state_lock, processes, device_status_cache,
                 hw_online, new_cache, pending_requests, starting_models, thr, clock, reaper,
                 budget, hist>>

\* requests of every kind, accepted or turned away, with the starts they cause
NextEntry ==
  \/ StartModelStep
  \/ GatewayStep
  \/ DeviceMonitor
  \/ \E r \in Reqs, alias \in Aliases, path \in EntryPaths : GwReject(r, alias, path)

SpecEntry == Init /\ [][NextEntry]_vars

\* ------------------------------------------------------------------ claims

\* a start_model call is inside a startup attempt: from status = starting
\* until _start_model_intelligent returns
AttemptPcs == {"select", "gate0", "evict", "refresh", "gate1", "init", "spawn", "recpid", "probe", "hok", "hfail"}

InAttempt(t, m) == thr[t].m = m /\ thr[t].pc \in AttemptPcs

\* a request between its increment and its terminal path
ActivePcs == {"sleep", "awaitStart", "send", "streaming"}

ActiveRequests(m) == {r \in Reqs : req[r].m = m /\ req[r].pc \in ActivePcs}

\* C1: as long as no stop_model and no failed Popen disturbed the model, concurrent
\* requests for it cause at most one start_process call, and a request that saw
\* the model routing was preceded by exactly one
C1_SingletonStartup ==
  /\ \A m \in Models : hist.epoch[m] # "respawned"
  /\ \A r \in Reqs :
       (req[r].pc \in {"send", "streaming"} /\ hist.epoch[req[r].m] # "disturbed")
         => hist.epoch[req[r].m] = "spawned"

\* C1 witness: one request awaits its start_model call, another is parked in the
\* wait loop for the same model, and the single spawn has happened
C1_Witness ==
  \E r1, r2 \in Reqs :
    /\ r1 # r2
    /\ req[r1].m = req[r2].m
    /\ req[r1].pc = "awaitStart"
    /\ req[r2].pc = "sleep"
    /\ hist.epoch[req[r1].m] = "spawned"
    /\ models_state[req[r1].m].status = "health_check"

\* C2: every request that ended was followed by exactly one mark_request_completed
C2_ExactlyOneCompletion ==
  \A r \in Reqs : req[r].pc = "done" => hist.marks[r] = 1

\* C3: the in-flight counter of a model is never negative and always equals the
\* number of its active requests
C3_CounterIsActiveCount ==
  \A m \in Models :
    /\ pending_requests[m] >= 0
    /\ pending_requests[m] = Cardinality(ActiveRequests(m))

\* C4: the resource gate never stops, as eviction victim, a model whose in-flight
\* counter is > 0
C4_NoEvictionOfBusy ==
  [][\A t \in Threads, n \in Models :
       (/\ thr[t].pc = "evict"
        /\ thr'[t].pc = "refresh"
        /\ models_state[n].status = "routing"
        /\ models_state'[n].status = "stopped")
         => pending_requests[n] = 0]_vars

\* C5: a reaper stop_model call leaves a model with in-flight counter > 0 as it is
C5_ReaperSparesBusy ==
  [][\A n \in Models :
       (reaper = n /\ reaper' = "none" /\ pending_requests[n] > 0)
         => models_state'[n].status = models_state[n].status]_vars

\* C6: the reaper does not stop a model before AliveTime has passed since the last
\* time a request touched it
C6_ReaperRespectsActivity ==
  [][\A n \in Models :
       (/\ reaper = n
        /\ reaper' = "none"
        /\ models_state[n].status # models_state'[n].status
        /\ hist.reqTouch[n] # 0)
         => clock >= hist.reqTouch[n] + AliveTime]_vars

AllowedTransitions ==
  { <<"stopped", "starting">>,
    <<"starting", "init_script">>, <<"starting", "failed">>, <<"starting", "stopped">>,
    <<"init_script", "health_check">>, <<"init_script", "failed">>, <<"init_script", "stopped">>,
    <<"health_check", "routing">>, <<"health_check", "stopped">>, <<"health_check", "failed">>,
    <<"routing", "stopped">>,
    <<"failed", "starting">> }

\* C7: every change of a model's status is one of the allowed transitions
C7_TransitionsAllowed ==
  [][\A m \in Models :
       models_state[m].status # models_state'[m].status
         => <<models_state[m].status, models_state'[m].status>> \in AllowedTransitions]_vars

\* C8: a routing model has a pid and a current_config
C8_RoutingHasPidAndConfig ==
  \A m \in Models :
    models_state[m].status = "routing"
      => models_state[m].pid # 0 /\ models_state[m].current_config # "none"

\* C9: a stopped model has neither pid nor current_config
C9_StoppedHasNoPidNoConfig ==
  \A m \in Models :
    models_state[m].status = "stopped"
      => models_state[m].pid = 0 /\ models_state[m].current_config = "none"

\* C10: at most one thread at a time is inside a startup attempt of a model
C10_OneAttemptPerModel ==
  \A m \in Models : Cardinality({t \in Threads : InAttempt(t, m)}) <= 1

\* C10 witness: a worker is inside an attempt while the admin endpoint's
\* start_model for the same model waits for the startup lock
C10_Witness ==
  \E m \in Models, t \in Reqs :
    /\ InAttempt(t, m)
    /\ thr[Admin].m = m
    /\ thr[Admin].pc = "acquire"

\* C11: a stop_model call on a stopped model changes no field of any model record
\* and leaves the process table alone; on a routing model it leaves status =
\* stopped and pid = None
C11_StopIdempotent ==
  [][\A m \in Models :
       AdminStop(m) =>
         /\ models_state[m].status = "stopped"
              => (models_state' = models_state /\ processes' = processes)
         /\ models_state[m].status = "routing"
              => (models_state'[m].status = "stopped" /\ models_state'[m].pid = 0)]_vars

\* C11 witness: the admin stop endpoint has stopped a routing model under a
\* streaming request (no other stop_model caller has run: the other model is
\* untouched and the only start_model worker delivered success)
C11_Witness ==
  \E m \in Models, r \in Reqs :
    /\ budget.admin = 1
    /\ \A t \in Threads : thr[t].pc = "idle"
    /\ req[r].pc = "streaming" /\ req[r].m = m
    /\ \A q \in Reqs \ {r} : req[q].pc = "idle"
    /\ models_state[m].status = "stopped"
    /\ models_state[m].failure_reason = "User requested"
    /\ models_state[m].pid = 0
    /\ processes[m].status = "stopped"
    /\ \A n \in Models \ {m} : models_state[n].last_access = 0 /\ hist.epoch[n] = "fresh"

\* the blocks of V whose required_devices are all online
Qualifying(V, online) == {i \in 1..Len(V) : V[i].required_devices \subseteq online}

\* C12: the selector returns the config_source of the first variant block, in
\* definition order, whose required_devices are a subset of the online set, and
\* None exactly when no block qualifies
C12_FirstQualifyingVariant ==
  LET V == hist.sel.variants
      O == hist.sel.online
      out == hist.sel.out
      Q == Qualifying(V, O)
  IN out # "pending"
       => IF Q = {} THEN out = "none"
          ELSE \E i \in Q : /\ out = V[i].key
                             /\ \A j \in Q : i <= j

\* C12 witness: the selector skipped a block that does not qualify, and
\* returned the first of two qualifying blocks
C12_Witness ==
  LET V == hist.sel.variants
      O == hist.sel.online
  IN /\ Len(V) = 3
     /\ ~(V[1].required_devices \subseteq O)
     /\ V[2].required_devices \subseteq O
     /\ V[3].required_devices \subseteq O
     /\ hist.sel.out = "v2"

\* C13: a start_model call that finds no variant with all its required devices
\* online returns failure without a spawn and leaves the model's status failed
C13_NoVariantMeansFailed ==
  [][\A t \in Threads :
       (/\ thr[t].pc = "select"
        /\ get_adaptive_model_config(thr[t].m, OnlineForSelection(thr[t].m)) = "none"
        /\ thr'[t].pc # "select")
         => /\ processes' = processes
            /\ thr'[t].pc \in {"ret", "idle"}
            /\ thr'[t].pc = "ret" => ~thr'[t].res
            /\ models_state'[thr[t].m].status = "failed"]_vars

\* C14: a start_model call whose resource gate fails returns failure without a
\* spawn and leaves the model failed, with the failure_reason of insufficient
\* device memory
C14_GateFailureMeansFailed ==
  [][\A t \in Threads :
       (/\ thr[t].pc \in {"gate0", "gate1"}
        /\ thr'[t].pc \in {"ret", "idle"})
         => /\ \A n \in Models : processes'[n].status = "running" => processes[n].status = "running"
            /\ thr'[t].pc = "ret" => ~thr'[t].res
            /\ models_state'[thr[t].m].status = "failed"
            /\ models_state'[thr[t].m].failure_reason = "insufficient device memory"]_vars

\* C15: when the health check of a spawned child fails, the call returns failure,
\* the child is no longer running, and the model is stopped (not failed) with
\* pid = None
C15_HealthFailureMeansStopped ==
  [][\A t \in Threads :
       (thr[t].pc = "hfail" /\ thr'[t].pc # "hfail")
         => /\ thr'[t].pc \in {"ret", "idle"}
            /\ thr'[t].pc = "ret" => ~thr'[t].res
            /\ models_state'[thr[t].m].status = "stopped"
            /\ models_state'[thr[t].m].pid = 0
            /\ processes'[thr[t].m].status # "running"]_vars

\* C16: when the start_model call a request awaits has returned failure, the
\* request leaves the await only as answered with 503 (or as cancelled by its
\* client, which has no answer); it is never forwarded
C16_StartFailureMeans503 ==
  [][\A r \in Reqs :
       (/\ req[r].pc = "awaitStart"
        /\ thr[r].pc = "ret"
        /\ ~thr[r].res
        /\ req'[r] # req[r])
         => /\ req'[r].pc = "done"
            /\ req'[r].code \in {"503", "cancelled"}
            /\ ~GwCancel(r) => req'[r].code = "503"]_vars

\* C16 witness: a request was answered with 503
C16_Witness ==
  \E r \in Reqs : req[r].pc = "done" /\ req[r].code = "503"

\* C17: the gateway answers 400 to v1/embeddings for a Chat model and to
\* v1/chat/completions for an Embedding model
C17_ModeRejectsForeignPath ==
  hist.val.out # "pending"
    => /\ (hist.val.mode = "Chat" /\ hist.val.path = <<"v1", "embeddings">>)
            => hist.val.out = "400"
       /\ (hist.val.mode = "Embedding" /\ hist.val.path = <<"v1", "chat", "completions">>)
            => hist.val.out = "400"

\* the next step of the start_model call of thread t
SMStepOf(t) ==
  \/ SMCheck(t) \/ SMWaitTimeout(t) \/ SMAcquire(t) \/ SMAcquireTimeout(t)
  \/ SMBegin(t) \/ SMSelect(t) \/ SMGate0(t) \/ SMEvict(t) \/ SMRefresh(t) \/ SMGate1(t)
  \/ SMInit(t)
  \/ SMSpawn(t) \/ SMRecordPid(t) \/ SMHealthProbe(t) \/ SMHealthOk(t)
  \/ SMHealthFail(t)

\* the state locks the next step of thread t may take: its own model's, and
\* every model's during the eviction scan
StateLocksNeeded(t) ==
  IF thr[t].pc = "gate0" THEN Models
  ELSE IF thr[t].pc = "evict" THEN {thr[t].victim}
  ELSE {thr[t].m}

\* C18: a start_model call never waits for a lock of another model's startup:
\* with its own startup lock free (when it is about to acquire it) and the
\* state locks its step takes free, its next step can be taken whatever
\* startup locks of other models are held
C18_NoSharedStartupLock ==
  \A t \in Threads :
    (/\ thr[t].pc \notin {"idle", "ret"}
     /\ thr[t].pc = "acquire" => startup_locks[thr[t].m] = NoThread
     /\ \A n \in StateLocksNeeded(t) : StateLockFree(n, t))
      => ENABLED SMStepOf(t)

\* C18 witness: the startup attempts of two models are in their health checks at
\* the same time, each thread holding its own model's startup lock
C18_Witness ==
  \E t1, t2 \in Threads :
    /\ thr[t1].m = "a" /\ thr[t1].pc = "probe" /\ startup_locks["a"] = t1
    /\ thr[t2].m = "b" /\ thr[t2].pc = "probe" /\ startup_locks["b"] = t2
    /\ models_state["a"].status = "health_check"
    /\ models_state["b"].status = "health_check"
    /\ processes["a"].status = "running"
    /\ processes["b"].status = "running"

\* C19: a caller in the wait path follows the startup it waits for: while it
\* waits, the attempt of the other caller can take its next step, so that the
\* status can become routing, failed or stopped and end the wait before the
\* 120 polls are used up
C19_WaiterSeesStartupAdvance ==
  \A t \in Threads :
    thr[t].pc = "wait"
      => \A u \in Threads \ {t} :
           (thr[u].m = thr[t].m /\ thr[u].pc \in AttemptPcs) => ENABLED SMStepOf(u)

\* C20: a start_model call that finds the status in a startup state takes the
\* wait path
C20_StartupStateMeansWaitPath ==
  [][\A t \in Threads :
       (/\ thr[t].pc = "check"
        /\ models_state[thr[t].m].status \in STARTUP_STATES
        /\ thr'[t].pc # "check")
         => thr'[t].pc = "wait"]_vars

C22_SpawnFailureMeansFailed ==
  [][\A t \in Threads :
       (thr[t].pc = "spawn" /\ thr'[t].pc \in {"ret", "idle"})
         => /\ thr'[t].pc = "ret" => ~thr'[t].res
            /\ models_state'[thr[t].m].status = "failed"]_vars

\* a device named in the memory_mb of the variant chosen by thread t is offline
\* in the snapshot
RequiredDeviceOffline(t, snap) ==
  \E d \in DOMAIN VariantOf(thr[t].m, thr[t].key).memory_mb : ~snap[d].online

\* C23: when a device named in the variant's memory_mb is offline, the first pass
\* of the resource gate ends the gate with failure and stops no model, whatever
\* deficits the other devices have
C23_OfflineDeviceFailsAtOnce ==
  [][\A t \in Threads :
       (/\ thr[t].pc = "gate0"
        /\ RequiredDeviceOffline(t, device_status_cache)
        /\ thr'[t].pc # "gate0")
         => /\ thr'[t].pc \in {"ret", "idle"}
            /\ thr'[t].pc = "ret" => ~thr'[t].res
            /\ \A n \in Models \ {thr[t].m} : models_state'[n] = models_state[n]
            /\ processes' = processes]_vars

\* the deficit set the gate of thread t computes from the snapshot snap
DeficitOf(t, snap) == ResourceCheck(thr[t].m, thr[t].key, snap).deficit

\* C24: the resource arbiter calls stop_model only when a required device has a
\* positive deficit, and only on a model that is routing and whose current
\* variant's required_devices meet the deficit set; a gate that finds every
\* required device online with enough memory succeeds and stops nothing
C24_EvictionOnlyOnDeficit ==
  [][\A t \in Threads :
       /\ (thr[t].pc = "gate0" /\ thr'[t].pc = "evict")
            => /\ DeficitOf(t, device_status_cache) # {}
               /\ models_state[thr'[t].victim].status = "routing"
               /\ VariantOf(thr'[t].victim,
                            models_state[thr'[t].victim].current_config).required_devices
                    \cap DeficitOf(t, device_status_cache) # {}
       /\ (thr[t].pc = "evict" /\ thr'[t].pc = "refresh")
            => \/ models_state[thr[t].victim].status = "routing"
               \/ models_state' = models_state /\ processes' = processes
       /\ (/\ thr[t].pc = "gate0"
           /\ ResourceCheck(thr[t].m, thr[t].key, device_status_cache).ok
           /\ thr'[t].pc # "gate0")
            => /\ thr'[t].pc = "init"
               /\ models_state' = models_state
               /\ processes' = processes]_vars

\* C25: among several eviction candidates, the one stopped has the smallest
\* last_access
C25_OldestEvictedFirst ==
  [][\A t \in Threads :
       /\ (thr[t].pc = "gate0" /\ thr'[t].pc = "evict")
            => /\ thr'[t].victim \in EvictionCandidates(DeficitOf(t, device_status_cache))
               /\ \A o \in EvictionCandidates(DeficitOf(t, device_status_cache)) :
                    models_state[thr'[t].victim].last_access <= models_state[o].last_access
       /\ (thr[t].pc = "evict" /\ thr'[t].pc = "refresh")
            => /\ models_state'[thr[t].victim].status = "stopped"
               /\ \A o \in Models \ {thr[t].victim} : models_state'[o] = models_state[o]]_vars

C25_Witness ==
  \E t \in Threads :
    /\ thr[t].pc = "gate1"
    /\ models_state["a"].status = "routing"
    /\ models_state["b"].status = "stopped"
    /\ models_state["b"].failure_reason = "User requested"
    /\ models_state["a"].last_access > 1

\* the models whose record or child the step changes
Changed == {n \in Models : models_state'[n] # models_state[n] \/ processes'[n] # processes[n]}

\* C26: one start_model attempt computes the deficits at most twice (the first
\* pass, then one pass after the eviction) and stops at most one other model;
\* when the second pass still finds a deficit the call fails and stops nothing
C26_AtMostOneEviction ==
  [][\A t \in Threads :
       /\ (thr[t].pc = "gate0" /\ thr'[t].pc # "gate0")
            => /\ thr'[t].pc \in {"init", "evict", "ret", "idle"}
               /\ \A n \in Models \ {thr[t].m} : n \notin Changed
       /\ (thr[t].pc = "evict" /\ thr'[t].pc # "evict")
            => /\ thr'[t].pc = "refresh"
               /\ Changed \subseteq {thr[t].victim}
       /\ (thr[t].pc = "refresh" /\ thr'[t].pc # "refresh")
            => /\ thr'[t].pc = "gate1"
               /\ Changed = {}
       /\ (thr[t].pc = "gate1" /\ thr'[t].pc # "gate1")
            => /\ thr'[t].pc \in {"init", "ret", "idle"}
               /\ Changed = {}
               /\ ~ResourceCheck(thr[t].m, thr[t].key, device_status_cache).ok
                    => /\ thr'[t].pc \in {"ret", "idle"}
                       /\ thr'[t].pc = "ret" => ~thr'[t].res]_vars

C26_Witness ==
  /\ thr[Admin].pc = "idle"
  /\ budget.admin = 1
  /\ models_state["b"].status = "stopped"
  /\ models_state["a"].status = "routing"
  /\ processes["a"].status = "running"
  /\ processes["c"].status = "none"
  /\ device_status_cache["gpu0"].available = 1

\* C27: after the victim is stopped the cache is refreshed before the deficits
\* are recomputed: the snapshot of the second pass is never older than the
\* eviction (here: it is what the probes report once the victim is gone), and
\* so the start that the eviction made room for is not refused by the gate
C27_SecondPassSeesEviction ==
  \A t \in Threads :
    thr[t].pc = "gate1"
      => device_status_cache = update_device_status_once(processes, hw_online)

\* C28: the stop_model call of a reaper tick leaves the model it was decided
\* for stopped with pid = None; it changes no other model, and it leaves a
\* model that is not routing as it is
C28_ReaperStopsIdleOnly ==
  [][\A n \in Models :
       (reaper = n /\ reaper' = "none")
         => /\ models_state'[n].status = "stopped"
            /\ models_state'[n].pid = 0
            /\ \A o \in Models \ {n} : models_state'[o] = models_state[o]
            /\ models_state[n].status # "routing" => models_state'[n] = models_state[n]]_vars

\* C29: with alive_time <= 0 the idle reaper calls stop_model on no model,
\* whatever its status and last_access
C29_NoReapWhenDisabled ==
  hist.idle.alive_time <= 0 => hist.idle.out # "stop_model"

C29_Witness ==
  /\ hist.idle.alive_time <= 0
  /\ hist.idle.out = "skip"
  /\ hist.idle.status = "routing"
  /\ hist.idle.last_access # 0
  /\ hist.idle.now - hist.idle.last_access > 0

\* C30: a request turned away by the entry validation (400 or 404) leaves the
\* in-flight counters, every model's record (status, last_access), the
\* starting set, the start_model calls and the children as they were
C30_RejectionChangesNothing ==
  [][\A r \in Reqs :
       (req[r].pc = "idle" /\ req'[r].pc = "done" /\ req'[r].code \in {"400", "404"})
         => /\ pending_requests' = pending_requests
            /\ models_state' = models_state
            /\ starting_models' = starting_models
            /\ thr' = thr
            /\ processes' = processes
            /\ startup_locks' = startup_locks]_vars

C30_Witness ==
  \E r \in Reqs, q \in Reqs :
    /\ req[r].pc = "done"
    /\ req[r].code = "400"
    /\ req[q].pc = "streaming"
    /\ req[q].m = "b"
    /\ pending_requests["b"] = 1
    /\ models_state["b"].status = "routing"

\* C31: a request goes on to forward (build_request, client.send) only in a
\* loop iteration that read status = routing, and its answer only streams
\* after that forward
C31_ForwardOnlyAfterRouting ==
  [][\A r \in Reqs :
       /\ (req[r].pc # "send" /\ req'[r].pc = "send")
            => models_state[req'[r].m].status = "routing"
       /\ (req[r].pc # "streaming" /\ req'[r].pc = "streaming")
            => req[r].pc = "send"]_vars

C31_Witness ==
  \E r \in Reqs :
    /\ req[r].pc = "send"
    /\ models_state[req[r].m].status = "routing"
    /\ hist.epoch[req[r].m] = "spawned"
    /\ thr[r].pc = "idle"

\* C32: a name is in starting_models exactly while a request awaits the
\* start_model call it offloaded for that model; once the await is over
\* (result, failure, exception, cancellation) the name is gone
C32_StartingSetMeansAwait ==
  \A m \in Models :
    m \in starting_models <=> \E r \in Reqs : req[r].pc = "awaitStart" /\ req[r].m = m

C32_Witness ==
  \E r \in Reqs :
    /\ req[r].pc = "done"
    /\ req[r].code = "503"
    /\ req[r].m \notin starting_models
    /\ \A q \in Reqs : req[q].pc # "awaitStart"

\* C33: a request answered 500 (proxy error) or 503 (startup failure) stops no
\* model: the step that ends it leaves every model's status, pid and
\* current_config and every child as they were
C33_GatewayErrorStopsNothing ==
  [][\A r \in Reqs :
       (req[r].pc # "done" /\ req'[r].pc = "done" /\ req'[r].code \in {"500", "503"})
         => /\ \A n \in Models :
                 /\ models_state'[n].status = models_state[n].status
                 /\ models_state'[n].pid = models_state[n].pid
                 /\ models_state'[n].current_config = models_state[n].current_config
            /\ processes' = processes]_vars

C33_Witness ==
  \E r \in Reqs :
    /\ req[r].pc = "done"
    /\ req[r].code = "500"
    /\ models_state[req[r].m].status = "routing"
    /\ models_state[req[r].m].pid # 0
    /\ processes[req[r].m].status = "running"

\* C34: in one update pass a probe that raises gives its device the entry
\* online = false with the error, every other device gets the entry of its own
\* probe, and the map after the pass holds nothing of the map before it
C34_RaisingProbeIsLocal ==
  hist.dev.updated /\ (\E d \in Devices : hist.dev.outcome[d] = "raises")
    => \A d \in Devices :
         hist.dev.cache[d] =
           IF hist.dev.outcome[d] = "raises"
           THEN [online |-> FALSE, available |-> 0, error |-> TRUE]
           ELSE IF hist.dev.outcome[d] = "online"
           THEN [online |-> TRUE, available |-> hist.dev.avail[d], error |-> FALSE]
           ELSE [online |-> FALSE, available |-> 0, error |-> FALSE]

C34_Witness ==
  /\ hist.dev.updated
  /\ hist.dev.outcome["gpu0"] = "raises"
  /\ hist.dev.outcome["cpu"] = "online"
  /\ hist.dev.cache["gpu0"].error
  /\ hist.dev.cache["cpu"].online
  /\ hist.dev.cache["cpu"].available = 1

\* C35: with GPU monitoring disabled the selector returns the first variant
\* block in definition order, whatever the cached online set is
C35_DisabledTrustsConfig ==
  (hist.sel.out # "pending" /\ Len(hist.sel.variants) > 0)
    => hist.sel.out = hist.sel.variants[1].key

C35_Witness ==
  /\ Len(hist.sel.variants) > 1
  /\ hist.sel.out = hist.sel.variants[1].key
  /\ ~(hist.sel.variants[1].required_devices \subseteq hist.sel.online)
  /\ hist.sel.variants[2].required_devices \subseteq hist.sel.online

\* C36: a model in a startup status has a thread inside a startup attempt for
\* it that holds its startup lock: no startup status outlives the start_model
\* call that set it
C36_StartupStatusHasOwner ==
  \A m \in Models :
    models_state[m].status \in STARTUP_STATES
      => \E t \in Threads : InAttempt(t, m) /\ startup_locks[m] = t

\* requests and starts as in SpecEntry, scheduled fairly: every start_model call
\* on a worker thread keeps running, a sleeping coroutine wakes up, a finished
\* to_thread is awaited, a forward and a stream come to an end; clients need
\* not send or cancel anything
LiveEntry ==
  /\ SpecEntry
  /\ \A t \in Threads : WF_vars(SMStepOf(t))
  /\ \A r \in Reqs : WF_vars(GwPoll(r) \/ GwStartReturn(r) \/ GwSend(r) \/ GwStreamEnd(r))

\* C37: a request in the startup-wait loop (sleeping between polls or awaiting
\* its start_model call) eventually leaves it: it is forwarded or answered
C37_WaitLoopEnds ==
  \A r \in Reqs :
    (req[r].pc \in {"sleep", "awaitStart"}) ~> (req[r].pc \in {"send", "streaming", "done"})

\* C38: a model whose status is stopped, with no startup attempt for it in
\* progress, has no running child registered under its name
C38_StoppedHasNoChild ==
  \A m \in Models :
    (models_state[m].status = "stopped" /\ ~\E t \in Threads : InAttempt(t, m))
      => processes[m].status # "running"

\* the steps of start_model that begin by taking a state lock
StateLockPcs == {"check", "begin", "gate0", "evict", "init", "recpid", "hok", "hfail"}

\* the threads that hold a lock the next step of thread t blocks on: the holder
\* of its model's startup lock at model_lock.acquire, the holders of the state
\* locks its step takes; the event loop between admin calls runs the gateway
\* coroutines, whose activity touches block on a held state lock
WaitsFor(t) ==
  IF thr[t].pc = "acquire"
  THEN {startup_locks[thr[t].m]} \ {NoThread, t}
  ELSE IF thr[t].pc \in StateLockPcs
  THEN {state_lock[n] : n \in StateLocksNeeded(t)} \ {NoThread, t}
  ELSE IF t = Admin /\ thr[t].pc = "idle"
  THEN {state_lock[n] : n \in Models} \ {NoThread, t}
  ELSE {}

\* the threads t waits for, directly or through a chain of waiting holders
WaitsForChain(t) ==
  LET W1 == WaitsFor(t)
      W2 == W1 \cup UNION {WaitsFor(u) : u \in W1}
      W3 == W2 \cup UNION {WaitsFor(u) : u \in W2}
  IN  W3

C40_StartupLockFollowsAttempt ==
  \A m \in Models : \A t \in Threads :
    startup_locks[m] = t <=> (thr[t].m = m /\ thr[t].pc \in {"begin"} \cup AttemptPcs)

\* C40 witness: the only request so far ran an attempt that spawned a child and
\* returned failure from its health check; the admin start endpoint has then
\* acquired the same model's startup lock
C40_Witness ==
  \E r \in Reqs :
    /\ thr[r].pc = "ret" /\ ~thr[r].res
    /\ \A q \in Reqs \ {r} : req[q].pc = "idle" /\ thr[q].pc = "idle"
    /\ processes[thr[r].m].status = "stopped"
    /\ startup_locks[thr[r].m] = Admin
    /\ thr[Admin].m = thr[r].m
====
